---- MODULE Spec2Model ----
(***************************************************************************)
(* A model of icatapi/montage.py: the tile-pair collector                  *)
(* (get_tile_pairs_4_montage), the point-match dispatcher                  *)
(* (generate_point_matches, run_point_match_client) and the match fetchers *)
(* (get_matches_within_section, get_matches_within_stack).                 *)
(*                                                                         *)
(* The render-ws client library is the environment: a remote call either   *)
(* answers with a value drawn from a small set or fails (raises).          *)
(* A table (pandas DataFrame) is a sequence of row records.                *)
(***************************************************************************)
EXTENDS Integers, Sequences, FiniteSets

\* ------------------------------------------------------------------ bounds
\* z values of a stack are drawn from 1..MaxZ
MaxZ == 3
\* a tilePairClient answer holds 0..MaxPairs neighbor pairs
MaxPairs == 2

\* a match collection has 0..MaxSections section ids
MaxSections == 2
\* a get_matches_within_group answer holds 0..MaxMatches match records
MaxMatches == 1
\* tile ids are strings of 0..MaxIdLen characters
MaxIdLen == 4

\* a tile-pair table handed to the dispatcher has 0..MaxRows rows
MaxRows == 3
\* batch_size is drawn from 1..MaxBatchSize
MaxBatchSize == 2
\* N_cores is drawn from 1..MaxCores
MaxCores == 2

\* ------------------------------------------------------------------ values
Stacks == {"s1", "s2"}
\* a missing cell of a text column, and of a numeric column
NaN == "NaN"
NoNumber == 0 - 1
None == "None"

VARIABLE stack      \* the stack argument of the collector and of the fetcher

VARIABLES
    \* get_tile_pairs_4_montage
    z_values,       \* answer of get_z_values_for_stack
    zi,             \* number of z values the for loop has consumed
    df_pairs,       \* the accumulated tile-pair table
    tp_calls,       \* log of the tilePairClient calls issued
    tp_result,      \* the returned table, or None
    tp_pc           \* "loop", "returned", "raised" ("idle": not running)

tp_vars == <<z_values, zi, df_pairs, tp_calls, tp_result, tp_pc>>

VARIABLES
    \* get_matches_within_stack
    match_collection, \* the match_collection argument
    sectionIds,     \* answer of get_match_groupIds
    sectionZ,       \* what get_section_z_value answers for each section id
    remote_matches, \* what get_matches_within_group answers for each section id
    si,             \* number of section ids the for loop has consumed
    df_matches,     \* the accumulated match table
    ms_calls,       \* log of the get_matches_within_section calls
    ms_result,      \* the returned table, or None
    ms_error,       \* the exception that left the function, or None
    ms_pc           \* "loop", "extract", "returned", "raised"

ms_vars == <<match_collection, sectionIds, sectionZ, remote_matches, si,
             df_matches, ms_calls, ms_result, ms_error, ms_pc>>

VARIABLES
    \* generate_point_matches
    pairs,          \* the df_pairs argument
    batch_size,     \* the batch_size argument
    N_cores,        \* the N_cores argument
    template,       \* the caller's SIFT options, as they were at the call
    heap,           \* the SiftPointMatchOptions objects alive, by reference
    sift_options,   \* the object the local name sift_options is bound to
    bn,             \* number of batches whose loop body has completed
    partial,        \* point_match_client_partial: the captured arguments
    tp_batch,       \* the batch's list of [(p.id, q.id)] lists
    sift_options_batch, \* the batch's list of option objects (references)
    batch_log,      \* the batches built so far: key and rows of each
    pools,          \* the worker pools alive, named by their batch number
    task_data,      \* zip(tp_batch, sift_options_batch) as handed to the pool
    pending,        \* tasks handed to a pool and not yet started
    running,        \* tasks a worker is executing
    finished,       \* tasks that have completed
    invocations,    \* log of the pointMatchClient invocations
    pm_pc           \* "loop", "built", "map", "done"

pm_vars == <<pairs, batch_size, N_cores, template, heap, sift_options, bn,
             partial, tp_batch, sift_options_batch, batch_log, pools,
             task_data, pending, running, finished, invocations, pm_pc>>

vars == <<stack, tp_vars, ms_vars, pm_vars>>

\* ------------------------------------------------------------------ helpers
Range(s) == {s[i] : i \in 1..Len(s)}

RECURSIVE SeqSum(_)
SeqSum(s) == IF s = <<>> THEN 0 ELSE s[1] + SeqSum(Tail(s))

\* strictly increasing sequences over 1..n (what the z-value endpoint answers)
IncreasingSeqs(n) ==
    {s \in UNION {[1..k -> 1..n] : k \in 0..n} :
        \A i \in 1..Len(s) : \A j \in 1..Len(s) : i < j => s[i] < s[j]}

\* ========================================================================
\* get_tile_pairs_4_montage
\* ========================================================================

\* pd.concat([a, b]): the rows of a followed by the rows of b
ConcatOverwrites(a, b) == b
Concat(a, b) == a \o b

\* pd.json_normalize(tile_pairs_json['neighborPairs']); df['z'] = z
\* One row per neighbor pair of the answer; `call` and `k` identify the pair
\* (the call that produced it and its place in the answer).
NormalizePairs(call, n, z) ==
    [k \in 1..n |-> [call |-> call, k |-> k, z |-> z, stack |-> NaN]]

\* df_pairs['stack'] = stack
SetStack(df, s) == [i \in 1..Len(df) |-> [df[i] EXCEPT !.stack = s]]

TpInit ==
    /\ stack \in Stacks
    /\ z_values \in IncreasingSeqs(MaxZ)
    /\ zi = 0
    /\ df_pairs = <<>>
    /\ tp_calls = <<>>
    /\ tp_result = None
    /\ tp_pc = "loop"

\* One iteration of the for loop whose tilePairClient call answers with n pairs.
TilePairCall ==
    /\ tp_pc = "loop"
    /\ zi < Len(z_values)
    /\ \E n \in 0..MaxPairs :
        LET z == z_values[zi + 1]
            call == Len(tp_calls) + 1
        IN  /\ tp_calls' = Append(tp_calls,
                    [stack |-> stack, minz |-> z, maxz |-> z, ok |-> TRUE, n |-> n])
            /\ df_pairs' = Concat(df_pairs, NormalizePairs(call, n, z))
    /\ zi' = zi + 1
    /\ UNCHANGED <<stack, z_values, tp_result, tp_pc, ms_vars, pm_vars>>

\* One iteration whose tilePairClient call raises, swallowed: the loop goes on.
TilePairCallFailsSwallowed ==
    /\ tp_pc = "loop"
    /\ zi < Len(z_values)
    /\ LET z == z_values[zi + 1]
       IN  tp_calls' = Append(tp_calls,
                [stack |-> stack, minz |-> z, maxz |-> z, ok |-> FALSE, n |-> 0])
    /\ zi' = zi + 1
    /\ UNCHANGED <<stack, z_values, df_pairs, tp_result, tp_pc, ms_vars, pm_vars>>

\* One iteration whose tilePairClient call raises: there is no try/except, the
\* exception leaves get_tile_pairs_4_montage and nothing is returned.
TilePairCallFails ==
    /\ tp_pc = "loop"
    /\ zi < Len(z_values)
    /\ LET z == z_values[zi + 1]
       IN  tp_calls' = Append(tp_calls,
                [stack |-> stack, minz |-> z, maxz |-> z, ok |-> FALSE, n |-> 0])
    /\ tp_pc' = "raised"
    /\ UNCHANGED <<stack, z_values, zi, df_pairs, tp_result, ms_vars, pm_vars>>

\* The loop is exhausted: tag the rows with the stack and return the table.
TilePairsReturn ==
    /\ tp_pc = "loop"
    /\ zi = Len(z_values)
    /\ df_pairs' = SetStack(df_pairs, stack)
    /\ tp_result' = df_pairs'
    /\ tp_pc' = "returned"
    /\ UNCHANGED <<stack, z_values, zi, tp_calls, ms_vars, pm_vars>>

TpNext == TilePairCall \/ TilePairCallFails \/ TilePairsReturn

TpIdle ==
    /\ z_values = <<>> /\ zi = 0 /\ df_pairs = <<>>
    /\ tp_calls = <<>> /\ tp_result = None /\ tp_pc = "idle"

\* ========================================================================
\* get_matches_within_section, get_matches_within_stack
\* ========================================================================

\* A tile id is a string, modelled as a sequence of characters.
Chars == {"x", "0", "5"}
Digits == {"0", "1", "2", "3", "4", "5", "6", "7", "8", "9"}
TileIds == UNION {[1..k -> Chars] : k \in 0..MaxIdLen}

IsDigit(c) == c \in Digits

DigitValue(c) ==
    CASE c = "0" -> 0 [] c = "1" -> 1 [] c = "2" -> 2 [] c = "3" -> 3
      [] c = "4" -> 4 [] c = "5" -> 5 [] c = "6" -> 6 [] c = "7" -> 7
      [] c = "8" -> 8 [] c = "9" -> 9

\* int(i) of a run of decimal digits
RECURSIVE IntOf(_)
IntOf(run) ==
    IF run = <<>> THEN 0
    ELSE 10 * IntOf(SubSeq(run, 1, Len(run) - 1)) + DigitValue(run[Len(run)])

\* re.findall(r'\d+', x): the maximal runs of digits of x, left to right.
\* i is the scan position, cur the run being read, acc the runs found so far.
RECURSIVE ScanRuns(_, _, _, _)
ScanRuns(x, i, cur, acc) ==
    IF i > Len(x)
    THEN IF cur = <<>> THEN acc ELSE Append(acc, cur)
    ELSE IF IsDigit(x[i])
         THEN ScanRuns(x, i + 1, Append(cur, x[i]), acc)
         ELSE ScanRuns(x, i + 1, <<>>, IF cur = <<>> THEN acc ELSE Append(acc, cur))

FindAllDigitRuns(x) == ScanRuns(x, 1, <<>>, <<>>)

\* l[-2:]: the last two elements of l, or all of l when it has fewer
LastTwo(l) == IF Len(l) <= 2 THEN l ELSE SubSeq(l, Len(l) - 1, Len(l))

\* lambda x: [int(i) for i in re.findall(r'\d+', x)[-2:]]
RowColList(x) ==
    LET runs == LastTwo(FindAllDigitRuns(x))
    IN  [i \in 1..Len(runs) |-> IntOf(runs[i])]

ValueError == "ValueError"
RemoteError == "RemoteError"

\* np.stack(lists): needs at least one list, and all lists of one length;
\* the result is a 2-D array, modelled as its rows and its width.
\* ok = FALSE stands for the ValueError np.stack raises.
Raised == [ok |-> FALSE, rows |-> <<>>, width |-> 0]

NpStackAcceptsEmpty(lists) ==
    IF lists = <<>> THEN [ok |-> TRUE, rows |-> <<>>, width |-> 2]
    ELSE IF \E i \in 1..Len(lists) : Len(lists[i]) # Len(lists[1]) THEN Raised
    ELSE [ok |-> TRUE, rows |-> lists, width |-> Len(lists[1])]
NpStack(lists) ==
    IF lists = <<>> THEN Raised
    ELSE IF \E i \in 1..Len(lists) : Len(lists[i]) # Len(lists[1]) THEN Raised
    ELSE [ok |-> TRUE, rows |-> lists, width |-> Len(lists[1])]

\* df[[c1, c2]] = array, for the p side: the array's first column goes to the
\* first name of the key ('pc'), its second column to the second ('pr');
\* pandas refuses an array whose width is not the length of the key
\* ("Columns must be same length as key", a ValueError).
\* The result is the table, with ok = FALSE when the statement raised.
SetPcPrSwapped(df, arr) ==
    IF ~arr.ok \/ arr.width # 2 THEN [ok |-> FALSE, df |-> df]
    ELSE [ok |-> TRUE,
          df |-> [i \in 1..Len(df) |->
                    [df[i] EXCEPT !.pr = arr.rows[i][1], !.pc = arr.rows[i][2]]]]
SetPcPr(df, arr) ==
    IF ~arr.ok \/ arr.width # 2 THEN [ok |-> FALSE, df |-> df]
    ELSE [ok |-> TRUE,
          df |-> [i \in 1..Len(df) |->
                    [df[i] EXCEPT !.pc = arr.rows[i][1], !.pr = arr.rows[i][2]]]]

\* the same for the q side, key ['qc', 'qr']
SetQcQrBroadcasts(df, arr) ==
    IF ~arr.ok \/ arr.width = 0 THEN [ok |-> FALSE, df |-> df]
    ELSE [ok |-> TRUE,
          df |-> [i \in 1..Len(df) |->
                    [df[i] EXCEPT !.qc = arr.rows[i][1],
                                  !.qr = arr.rows[i][arr.width]]]]
SetQcQr(df, arr) ==
    IF ~arr.ok \/ arr.width # 2 THEN [ok |-> FALSE, df |-> df]
    ELSE [ok |-> TRUE,
          df |-> [i \in 1..Len(df) |->
                    [df[i] EXCEPT !.qc = arr.rows[i][1], !.qr = arr.rows[i][2]]]]

\* get_matches_within_section: pd.json_normalize(matches_json); df['z'] = z.
\* One row per match record; `section` and `k` identify the record.  The
\* columns the answer does not carry (stack, pc, pr, qc, qr) are NaN.
SectionMatchesTagsSectionId(sectionId, matches, z) ==
    [k \in 1..Len(matches) |->
        [section |-> sectionId, k |-> k, stack |-> NaN, z |-> sectionId,
         pId |-> matches[k].pId, qId |-> matches[k].qId,
         pc |-> NoNumber, pr |-> NoNumber, qc |-> NoNumber, qr |-> NoNumber]]
SectionMatches(sectionId, matches, z) ==
    [k \in 1..Len(matches) |->
        [section |-> sectionId, k |-> k, stack |-> NaN, z |-> z,
         pId |-> matches[k].pId, qId |-> matches[k].qId,
         pc |-> NoNumber, pr |-> NoNumber, qc |-> NoNumber, qr |-> NoNumber]]

\* df_matches['pId'].apply(f), df_matches['qId'].apply(f)
ApplyP(df) == [i \in 1..Len(df) |-> RowColList(df[i].pId)]
ApplyQ(df) == [i \in 1..Len(df) |-> RowColList(df[i].qId)]

\* ids for the tables of several rows: two runs, one run, no digits
IdTwoRuns == <<"x", "0", "x", "5">>
IdTwoRunsB == <<"5", "x", "5", "0">>
IdOneRun == <<"x", "5">>
IdNoDigits == <<"x">>
SampleMatches ==
    { [pId |-> IdTwoRuns,  qId |-> IdTwoRunsB],
      [pId |-> IdTwoRunsB, qId |-> IdOneRun],
      [pId |-> IdNoDigits, qId |-> IdTwoRuns] }
SectionZs == {1, 2}
Collections == {"c1"}

SeqsUpTo(S, n) == UNION {[1..k -> S] : k \in 0..n}

\* several sections, matches among the sample ids
MsInitSections ==
    /\ \E n \in 0..MaxSections :
        /\ sectionIds = [i \in 1..n |-> i]
        /\ sectionZ \in [1..n -> SectionZs]
        /\ remote_matches \in [1..n -> SeqsUpTo(SampleMatches, MaxMatches)]

\* one section of one match, over every pair of tile ids
MsInitIds ==
    /\ sectionIds = <<1>>
    /\ sectionZ = [i \in {1} |-> 1]
    /\ \E p \in TileIds : \E q \in TileIds :
         remote_matches = [i \in {1} |-> <<[pId |-> p, qId |-> q]>>]

MsInit ==
    /\ stack \in Stacks
    /\ match_collection \in Collections
    /\ (MsInitSections \/ MsInitIds)
    /\ si = 0
    /\ df_matches = <<>>
    /\ ms_calls = <<>>
    /\ ms_result = None
    /\ ms_error = None
    /\ ms_pc = "loop"

\* One iteration of the for loop: get_matches_within_section answers.
FetchSection ==
    /\ ms_pc = "loop"
    /\ si < Len(sectionIds)
    /\ LET sectionId == sectionIds[si + 1]
           z == sectionZ[sectionId]
           df == SectionMatches(sectionId, remote_matches[sectionId], z)
       IN  /\ ms_calls' = Append(ms_calls,
                  [stack |-> stack, sectionId |-> sectionId,
                   match_collection |-> match_collection, ok |-> TRUE])
           /\ df_matches' = Concat(df_matches, df)
    /\ si' = si + 1
    /\ UNCHANGED <<stack, match_collection, sectionIds, sectionZ, remote_matches,
                   ms_result, ms_error, ms_pc, tp_vars, pm_vars>>

\* One iteration whose remote call raises: the exception leaves the function.
FetchSectionFails ==
    /\ ms_pc = "loop"
    /\ si < Len(sectionIds)
    /\ LET sectionId == sectionIds[si + 1]
       IN  ms_calls' = Append(ms_calls,
                  [stack |-> stack, sectionId |-> sectionId,
                   match_collection |-> match_collection, ok |-> FALSE])
    /\ ms_pc' = "raised"
    /\ ms_error' = RemoteError
    /\ UNCHANGED <<stack, match_collection, sectionIds, sectionZ, remote_matches,
                   si, df_matches, ms_result, tp_vars, pm_vars>>

\* The loop is exhausted: df_matches['stack'] = stack
FormatMatches ==
    /\ ms_pc = "loop"
    /\ si = Len(sectionIds)
    /\ df_matches' = SetStack(df_matches, stack)
    /\ ms_pc' = "extract"
    /\ UNCHANGED <<stack, match_collection, sectionIds, sectionZ, remote_matches,
                   si, ms_calls, ms_result, ms_error, tp_vars, pm_vars>>

\* The p side, then the q side, of the row/column extraction: the table
\* after both, with ok = FALSE when either statement raised.
ExtractRowCol(df) ==
    LET withP == SetPcPr(df, NpStack(ApplyP(df)))
    IN  IF ~withP.ok THEN withP
        ELSE SetQcQr(withP.df, NpStack(ApplyQ(withP.df)))

\* Add row/col indices and return
ExtractAndReturn ==
    /\ ms_pc = "extract"
    /\ ExtractRowCol(df_matches).ok
    /\ df_matches' = ExtractRowCol(df_matches).df
    /\ ms_result' = df_matches'
    /\ ms_pc' = "returned"
    /\ UNCHANGED <<stack, match_collection, sectionIds, sectionZ, remote_matches,
                   si, ms_calls, ms_error, tp_vars, pm_vars>>

\* Add row/col indices: np.stack or the column assignment raises
ExtractRaises ==
    /\ ms_pc = "extract"
    /\ ~ExtractRowCol(df_matches).ok
    /\ ms_pc' = "raised"
    /\ ms_error' = ValueError
    /\ UNCHANGED <<stack, match_collection, sectionIds, sectionZ, remote_matches,
                   si, df_matches, ms_calls, ms_result, tp_vars, pm_vars>>

MsNext ==
    \/ FetchSection
    \/ FetchSectionFails
    \/ FormatMatches
    \/ ExtractAndReturn
    \/ ExtractRaises

MsIdle ==
    /\ match_collection = "c1" /\ sectionIds = <<>> /\ sectionZ = <<>>
    /\ remote_matches = <<>> /\ si = 0 /\ df_matches = <<>> /\ ms_calls = <<>>
    /\ ms_result = None /\ ms_error = None /\ ms_pc = "idle"

\* ========================================================================
\* generate_point_matches, run_point_match_client
\* ========================================================================

\* the stack names in sorted order, and the collection of each
StackNames == <<"s1", "s2">>
StackRank(s) == CHOOSE i \in 1..Len(StackNames) : StackNames[i] = s
match_collections == [s \in Stacks |-> IF s = "s1" THEN "c1" ELSE "c2"]

\* the (stack, z) keys and p.relativePosition values of the tables
PairKeys == { [stack |-> "s1", z |-> 1], [stack |-> "s1", z |-> 2],
              [stack |-> "s2", z |-> 1] }
Positions == {"TOP", "LEFT"}

\* SiftPointMatchOptions: the fields of an options object
OptionFields == {"SIFTfdSize", "renderScale", "firstCanvasPosition"}
Templates ==
    { [SIFTfdSize |-> "8", renderScale |-> "0.5", firstCanvasPosition |-> None],
      [SIFTfdSize |-> "4", renderScale |-> None, firstCanvasPosition |-> "TOP"] }

\* SiftPointMatchOptions(**kwargs): a new object whose fields are the keyword
\* arguments given, None where none is given
NewOptionsIgnoresArgs(kwargs) == [f \in OptionFields |-> None]
NewOptions(kwargs) ==
    [f \in OptionFields |-> IF f \in DOMAIN kwargs THEN kwargs[f] ELSE None]

\* the tables: row i is the pair of tiles i and i + 1; the index label of a
\* row counts the rows of its stack (tables of several stacks, each with a
\* reset index, concatenated)
LabelOf(keys, pos, i) ==
    Cardinality({j \in 1..i : keys[j].stack = keys[i].stack}) - 1
PairTable(keys, pos) ==
    [i \in 1..Len(keys) |->
        [stack |-> keys[i].stack, z |-> keys[i].z, pid |-> i, qid |-> i + 1,
         pos |-> pos[i], label |-> LabelOf(keys, pos, i)]]
PairTables ==
    UNION { {PairTable(keys, pos) : keys \in [1..n -> PairKeys], pos \in [1..n -> Positions]}
            : n \in 0..MaxRows }

\* df_pairs.groupby(['stack', 'z']): the keys present, sorted, and the rows of
\* each key in table order
KeyLess(a, b) ==
    \/ StackRank(a.stack) < StackRank(b.stack)
    \/ (a.stack = b.stack /\ a.z < b.z)
KeysOf(df) == {[stack |-> df[i].stack, z |-> df[i].z] : i \in 1..Len(df)}
GroupKeys(df) ==
    CHOOSE s \in [1..Cardinality(KeysOf(df)) -> KeysOf(df)] :
        \A i, j \in 1..Cardinality(KeysOf(df)) : i < j => KeyLess(s[i], s[j])

\* the rows of df at the positions I, in table order
SelectRows(df, I) ==
    [k \in 1..Cardinality(I) |->
        df[CHOOSE i \in I : Cardinality({j \in I : j < i}) = k - 1]]

GroupRows(df, key) ==
    SelectRows(df, {i \in 1..Len(df) : df[i].stack = key.stack /\ df[i].z = key.z})

\* np.arange(len(tile_pairs)) // batch_size, at the i-th row (i from 1)
GroupingOneBased(i, size) == i \div size
Grouping(i, size) == (i - 1) \div size

\* tile_pairs.groupby(grouping): the batches of a group, in order of their
\* grouping value; a batch holds the rows of one value, in row order
BatchLabels(rows, size) == {Grouping(i, size) : i \in 1..Len(rows)}
RECURSIVE BatchesFrom(_, _, _, _)
BatchesFrom(rows, size, g, left) ==
    IF left = {} THEN <<>>
    ELSE IF g \in left
         THEN <<SelectRows(rows, {i \in 1..Len(rows) : Grouping(i, size) = g})>>
              \o BatchesFrom(rows, size, g + 1, left \ {g})
         ELSE BatchesFrom(rows, size, g + 1, left)
BatchesOf(rows, size) == BatchesFrom(rows, size, 0, BatchLabels(rows, size))

\* the two nested for loops: every batch of every group, in loop order
RECURSIVE AllBatchesFrom(_, _, _, _)
AllBatchesFrom(df, size, keys, k) ==
    IF k > Len(keys) THEN <<>>
    ELSE LET bs == BatchesOf(GroupRows(df, keys[k]), size)
         IN  [j \in 1..Len(bs) |-> [stack |-> keys[k].stack, z |-> keys[k].z, rows |-> bs[j]]]
             \o AllBatchesFrom(df, size, keys, k + 1)
AllBatches(df, size) == AllBatchesFrom(df, size, GroupKeys(df), 1)

\* batch.loc[i, 'p.relativePosition']: the cell of the row labelled i
LocFirstRow(batch, i) == batch[1].pos
LocPosition(batch, i) ==
    LET r == CHOOSE r \in Range(batch) : r.label = i IN r.pos

\* the loop over batch.index (lines 199-204), from the k-th row on: every
\* pass builds a new object from the fields of the one sift_options is bound
\* to, rebinds sift_options to it, sets its firstCanvasPosition and appends
\* it.  st = [heap, cur, out]: the objects, the binding, the list so far.
RECURSIVE OptionsLoop(_, _, _)
OptionsLoop(batch, k, st) ==
    IF k > Len(batch) THEN st
    ELSE LET new == NewOptions(st.heap[st.cur])
             ref == Len(st.heap) + 1
             set == [new EXCEPT !["firstCanvasPosition"] = LocPosition(batch, batch[k].label)]
         IN  OptionsLoop(batch, k + 1,
                [heap |-> Append(st.heap, set), cur |-> ref, out |-> Append(st.out, ref)])

PmInit ==
    /\ pairs \in PairTables
    /\ batch_size \in 1..MaxBatchSize
    /\ N_cores \in 1..MaxCores
    /\ template \in Templates
    /\ heap = <<template>>
    /\ sift_options = 1
    /\ bn = 0
    /\ partial = None
    /\ tp_batch = <<>>
    /\ sift_options_batch = <<>>
    /\ batch_log = <<>>
    /\ pools = {}
    /\ task_data = <<>>
    /\ pending = {}
    /\ running = {}
    /\ finished = {}
    /\ invocations = {}
    /\ pm_pc = "loop"

\* The body of the batch loop up to the pool (lines 187-204).
BuildBatch ==
    /\ pm_pc = "loop"
    /\ bn < Len(AllBatches(pairs, batch_size))
    /\ LET b == AllBatches(pairs, batch_size)[bn + 1]
           st == OptionsLoop(b.rows, 1, [heap |-> heap, cur |-> sift_options, out |-> <<>>])
       IN  /\ partial' = [stack |-> b.stack, collection |-> match_collections[b.stack]]
           /\ tp_batch' = [k \in 1..Len(b.rows) |-> << <<b.rows[k].pid, b.rows[k].qid>> >>]
           /\ heap' = st.heap
           /\ sift_options' = st.cur
           /\ sift_options_batch' = st.out
           /\ batch_log' = Append(batch_log, b)
    /\ pm_pc' = "built"
    /\ UNCHANGED <<pairs, batch_size, N_cores, template, bn, pools, task_data,
                   pending, running, finished, invocations, stack, tp_vars, ms_vars>>

\* with WithPool(N_cores) as pool: pool.map(partial, zip(...)) hands one task
\* per element of the zip to the pool, each with its own copy of the element.
OpenPool ==
    /\ pm_pc = "built"
    /\ pools' = pools \cup {bn + 1}
    /\ task_data' = [k \in 1..Len(tp_batch) |->
                        [tile_pairs |-> tp_batch[k],
                         sift_options |-> heap[sift_options_batch[k]]]]
    /\ pending' = pending \cup {[batch |-> bn + 1, k |-> k] : k \in 1..Len(tp_batch)}
    /\ pm_pc' = "map"
    /\ UNCHANGED <<pairs, batch_size, N_cores, template, heap, sift_options, bn,
                   partial, tp_batch, sift_options_batch, batch_log, running,
                   finished, invocations, stack, tp_vars, ms_vars>>

\* run_point_match_client(data, stack, collection, render): the invocation of
\* pointMatchClient a task makes
PointMatchCall(t, data, captured) ==
    [task |-> t, stack |-> captured.stack, collection |-> captured.collection,
     tile_pairs |-> data.tile_pairs, sift_options |-> data.sift_options]

\* A free worker of the pool takes a task and invokes pointMatchClient.
TaskStart ==
    /\ \E t \in pending :
        /\ Cardinality(running) < N_cores
        /\ pending' = pending \ {t}
        /\ running' = running \cup {t}
        /\ invocations' = invocations \cup {PointMatchCall(t, task_data[t.k], partial)}
    /\ UNCHANGED <<pairs, batch_size, N_cores, template, heap, sift_options, bn,
                   partial, tp_batch, sift_options_batch, batch_log, pools,
                   task_data, finished, pm_pc, stack, tp_vars, ms_vars>>

\* The remote computation of a task ends.
TaskFinish ==
    /\ \E t \in running :
        /\ running' = running \ {t}
        /\ finished' = finished \cup {t}
    /\ UNCHANGED <<pairs, batch_size, N_cores, template, heap, sift_options, bn,
                   partial, tp_batch, sift_options_batch, batch_log, pools,
                   task_data, pending, invocations, pm_pc, stack, tp_vars, ms_vars>>

\* pool.map returns once every task handed to it has completed
MapReturnsAtOnce(b) == TRUE
MapReturned(b) == \A t \in pending \cup running : t.batch # b

\* pool.map has returned: the with block ends, the pool is torn down and the
\* batch loop goes on.
ClosePool ==
    /\ pm_pc = "map"
    /\ MapReturned(bn + 1)
    /\ pools' = pools \ {bn + 1}
    /\ bn' = bn + 1
    /\ pm_pc' = "loop"
    /\ UNCHANGED <<pairs, batch_size, N_cores, template, heap, sift_options,
                   partial, tp_batch, sift_options_batch, batch_log, task_data,
                   pending, running, finished, invocations, stack, tp_vars, ms_vars>>

\* Both loops are exhausted: generate_point_matches returns (None).
PointMatchesReturn ==
    /\ pm_pc = "loop"
    /\ bn = Len(AllBatches(pairs, batch_size))
    /\ pm_pc' = "done"
    /\ UNCHANGED <<pairs, batch_size, N_cores, template, heap, sift_options, bn,
                   partial, tp_batch, sift_options_batch, batch_log, pools,
                   task_data, pending, running, finished, invocations,
                   stack, tp_vars, ms_vars>>

PmNext ==
    \/ BuildBatch
    \/ OpenPool
    \/ TaskStart
    \/ TaskFinish
    \/ ClosePool
    \/ PointMatchesReturn

PmIdle ==
    /\ pairs = <<>> /\ batch_size = 1 /\ N_cores = 1 /\ template = None
    /\ heap = <<>> /\ sift_options = 0 /\ bn = 0 /\ partial = None
    /\ tp_batch = <<>> /\ sift_options_batch = <<>> /\ batch_log = <<>>
    /\ pools = {} /\ task_data = <<>> /\ pending = {} /\ running = {}
    /\ finished = {} /\ invocations = {} /\ pm_pc = "idle"

\* ========================================================================
\* specifications
\* ========================================================================
InitPairs == TpInit /\ MsIdle /\ PmIdle
SpecPairs == InitPairs /\ [][TpNext]_vars

InitMatches == MsInit /\ TpIdle /\ PmIdle
SpecMatches == InitMatches /\ [][MsNext]_vars

InitDispatch == PmInit /\ stack = "s1" /\ TpIdle /\ MsIdle
SpecDispatch == InitDispatch /\ [][PmNext]_vars

\* ========================================================================
\* properties of get_tile_pairs_4_montage
\* ========================================================================

\* C4: the i-th tilePairClient call is the one call for the i-th z value, with
\* minz = maxz = that z; the returned table has as many rows as the calls
\* answered neighbor pairs in total, and each row carries the z of its call.
C4_OneCallPerZ ==
    /\ Len(tp_calls) <= Len(z_values)
    /\ \A i \in 1..Len(tp_calls) :
          /\ tp_calls[i].minz = z_values[i]
          /\ tp_calls[i].maxz = z_values[i]
          /\ tp_calls[i].stack = stack
    /\ tp_pc = "returned" =>
          /\ Len(tp_calls) = Len(z_values)
          /\ Len(tp_result) = SeqSum([i \in 1..Len(tp_calls) |-> tp_calls[i].n])
          /\ \A i \in 1..Len(tp_result) :
                /\ tp_result[i].call \in 1..Len(tp_calls)
                /\ tp_result[i].z = tp_calls[tp_result[i].call].minz
                /\ tp_result[i].stack = stack

C4_Witness ==
    /\ tp_pc = "returned"
    /\ Len(z_values) = 3
    /\ Len(tp_result) >= 3
    /\ \E i, j \in 1..Len(tp_result) : tp_result[i].z # tp_result[j].z
    /\ \E i \in 1..Len(tp_calls) : tp_calls[i].n = 0

\* C9: a failed tilePairClient call ends the operation: it is the last call
\* of the log (no call for a later z, no second call for the failed z), the
\* function has raised and no table has been returned.
C9_FailureAborts ==
    \A i \in 1..Len(tp_calls) :
        ~tp_calls[i].ok =>
            /\ tp_pc = "raised"
            /\ tp_result = None
            /\ i = Len(tp_calls)
            /\ \A j \in 1..Len(tp_calls) : j # i => tp_calls[j].minz # tp_calls[i].minz

C9_Witness ==
    /\ tp_pc = "raised"
    /\ Len(tp_calls) = 2
    /\ Len(z_values) = 3
    /\ df_pairs # <<>>
    /\ tp_result = None

\* ========================================================================
\* properties of get_matches_within_stack
\* ========================================================================

\* the number of maximal digit runs of a tile id: the positions where one starts
RunStarts(x) == {i \in 1..Len(x) : IsDigit(x[i]) /\ (i = 1 \/ ~IsDigit(x[i - 1]))}
RunCount(x) == Cardinality(RunStarts(x))

\* x[a..b] and x[c..d] are the last two maximal digit runs of x
LastTwoRunsAt(x, a, b, c, d) ==
    /\ 1 <= a /\ a <= b /\ b + 1 < c /\ c <= d /\ d <= Len(x)
    /\ \A i \in a..b : IsDigit(x[i])
    /\ \A i \in c..d : IsDigit(x[i])
    /\ \A i \in (b + 1)..(c - 1) : ~IsDigit(x[i])
    /\ \A i \in (d + 1)..Len(x) : ~IsDigit(x[i])
    /\ (a = 1 \/ ~IsDigit(x[a - 1]))

RECURSIVE Pow10(_)
Pow10(n) == IF n = 0 THEN 1 ELSE 10 * Pow10(n - 1)

\* the number the decimal digits x[a..b] write
RECURSIVE Decimal(_, _, _)
Decimal(x, a, b) ==
    IF a > b THEN 0 ELSE DigitValue(x[a]) * Pow10(b - a) + Decimal(x, a + 1, b)

\* the id ends in two numeric runs, as "R3C5" does
EndsInTwoRuns(x) ==
    \E a, b, c \in 1..Len(x) : LastTwoRunsAt(x, a, b, c, Len(x))

\* C1 as stated: for an id that ends in two numeric runs the row (pr, qr) is
\* the first of the two runs and the column (pc, qc) the second.
C1_RowThenColumn ==
    ms_pc = "returned" =>
        \A i \in 1..Len(ms_result) :
            LET r == ms_result[i] IN
            /\ \A a, b, c \in 1..Len(r.pId) :
                  LastTwoRunsAt(r.pId, a, b, c, Len(r.pId)) =>
                      /\ r.pr = Decimal(r.pId, a, b)
                      /\ r.pc = Decimal(r.pId, c, Len(r.pId))
            /\ \A a, b, c \in 1..Len(r.qId) :
                  LastTwoRunsAt(r.qId, a, b, c, Len(r.qId)) =>
                      /\ r.qr = Decimal(r.qId, a, b)
                      /\ r.qc = Decimal(r.qId, c, Len(r.qId))

\* C1 (amended): for an id that ends in two numeric runs the column (pc, qc)
\* is the first of the two runs and the row (pr, qr) the second, on the p
\* side from pId and on the q side from qId.
C1_ColumnThenRow ==
    ms_pc = "returned" =>
        \A i \in 1..Len(ms_result) :
            LET r == ms_result[i] IN
            /\ \A a, b, c \in 1..Len(r.pId) :
                  LastTwoRunsAt(r.pId, a, b, c, Len(r.pId)) =>
                      /\ r.pc = Decimal(r.pId, a, b)
                      /\ r.pr = Decimal(r.pId, c, Len(r.pId))
            /\ \A a, b, c \in 1..Len(r.qId) :
                  LastTwoRunsAt(r.qId, a, b, c, Len(r.qId)) =>
                      /\ r.qc = Decimal(r.qId, a, b)
                      /\ r.qr = Decimal(r.qId, c, Len(r.qId))

C1_Witness ==
    /\ ms_pc = "returned"
    /\ \E i \in 1..Len(ms_result) :
          LET r == ms_result[i] IN
          /\ EndsInTwoRuns(r.pId) /\ EndsInTwoRuns(r.qId)
          /\ r.pId # r.qId
          /\ r.pc # r.pr /\ r.qc # r.qr /\ r.pc # r.qc

\* C5: the i-th get_matches_within_section call is the one call for the i-th
\* section id; the returned table has as many rows as the sections hold
\* matches in total, and each row carries the z resolved for its section.
C5_OneFetchPerSection ==
    /\ Len(ms_calls) <= Len(sectionIds)
    /\ \A i \in 1..Len(ms_calls) :
          /\ ms_calls[i].sectionId = sectionIds[i]
          /\ ms_calls[i].stack = stack
          /\ ms_calls[i].match_collection = match_collection
    /\ ms_pc = "returned" =>
          /\ Len(ms_calls) = Len(sectionIds)
          /\ Len(ms_result) =
                SeqSum([i \in 1..Len(sectionIds) |-> Len(remote_matches[sectionIds[i]])])
          /\ \A i \in 1..Len(ms_result) :
                /\ ms_result[i].section \in Range(sectionIds)
                /\ ms_result[i].z = sectionZ[ms_result[i].section]

C5_Witness ==
    /\ ms_pc = "returned"
    /\ Len(sectionIds) = 2
    /\ Len(ms_result) = 2
    /\ ms_result[1].z = 2
    /\ ms_result[2].z = 1

\* C6 as stated: a table is returned only when every pId and qId ends in two
\* numeric runs.
C6_RaisesUnlessTrailingRuns ==
    ms_pc = "returned" =>
        \A i \in 1..Len(ms_result) :
            EndsInTwoRuns(ms_result[i].pId) /\ EndsInTwoRuns(ms_result[i].qId)

\* C6 (amended): a table is returned only when every pId and qId holds at
\* least two runs of digits, wherever they stand in the id; then no
\* pc/pr/qc/qr cell is left without a number.  With an id of fewer than two
\* runs in any row the extraction raises and nothing is returned.
C6_RaisesUnlessTwoRuns ==
    /\ ms_pc = "returned" =>
          \A i \in 1..Len(ms_result) :
              LET r == ms_result[i] IN
              /\ RunCount(r.pId) >= 2 /\ RunCount(r.qId) >= 2
              /\ r.pc # NoNumber /\ r.pr # NoNumber
              /\ r.qc # NoNumber /\ r.qr # NoNumber
    /\ (ms_pc = "raised" /\ ms_error = ValueError) => ms_result = None

C6_Witness ==
    /\ ms_pc = "raised"
    /\ ms_error = ValueError
    /\ ms_result = None
    /\ Len(df_matches) = 1
    /\ RunCount(df_matches[1].pId) = 2
    /\ RunCount(df_matches[1].qId) = 1

\* every section of the collection holds no match (or there is no section)
NoMatchAnywhere == \A i \in 1..Len(sectionIds) : remote_matches[sectionIds[i]] = <<>>

\* C10: a returned table is never empty; when no section holds a match and
\* every remote call answered, the function ends raising from the extraction
\* step, after one call per section id.
C10_EmptyRaises ==
    /\ ms_pc = "returned" => ms_result # <<>> /\ ~NoMatchAnywhere
    /\ (NoMatchAnywhere /\ ms_pc \in {"returned", "raised"} /\ ms_error # RemoteError) =>
          /\ ms_pc = "raised"
          /\ ms_error = ValueError
          /\ ms_result = None
          /\ Len(ms_calls) = Len(sectionIds)

C10_Witness ==
    /\ ms_pc = "raised"
    /\ ms_error = ValueError
    /\ Len(sectionIds) = 2
    /\ Len(ms_calls) = 2
    /\ NoMatchAnywhere
    /\ df_matches = <<>>

\* ========================================================================
\* properties of generate_point_matches
\* ========================================================================

\* C2: the options object of every invocation, and of every task handed to a
\* pool, has the template's value in every field but firstCanvasPosition.
C2_CloneKeepsTemplate ==
    /\ \A inv \in invocations :
          \A f \in OptionFields \ {"firstCanvasPosition"} :
              inv.sift_options[f] = template[f]
    /\ \A k \in 1..Len(task_data) :
          \A f \in OptionFields \ {"firstCanvasPosition"} :
              task_data[k].sift_options[f] = template[f]

C2_Witness ==
    /\ template.SIFTfdSize = "8"
    /\ \E inv \in invocations :
          /\ inv.task.batch = 3
          /\ inv.stack = "s2"
          /\ inv.sift_options.firstCanvasPosition # template.firstCanvasPosition
          /\ inv.sift_options.SIFTfdSize = "8"

\* the batches built for the group of a key, in the order they were built
LogOfKey(key) ==
    SelectRows(batch_log,
               {i \in 1..Len(batch_log) :
                    batch_log[i].stack = key.stack /\ batch_log[i].z = key.z})

\* C3: once the loops are done, the batches built for a group of n rows are
\* ceil(n / batch_size) in number, each of batch_size rows but the last,
\* which has n mod batch_size rows when that is not zero; taken in order
\* they hold the rows of the group in row order, each row once; a batch
\* holds rows of its own (stack, z) only.
C3_BatchPartition ==
    /\ \A i \in 1..Len(batch_log) :
          /\ batch_log[i].rows # <<>>
          /\ \A k \in 1..Len(batch_log[i].rows) :
                /\ batch_log[i].rows[k].stack = batch_log[i].stack
                /\ batch_log[i].rows[k].z = batch_log[i].z
    /\ pm_pc = "done" =>
          /\ \A i \in 1..Len(batch_log) :
                [stack |-> batch_log[i].stack, z |-> batch_log[i].z] \in KeysOf(pairs)
          /\ \A key \in KeysOf(pairs) :
                LET rows == GroupRows(pairs, key)
                    n == Len(rows)
                    log == LogOfKey(key)
                    count == (n + batch_size - 1) \div batch_size
                IN  /\ Len(log) = count
                    /\ \A j \in 1..Len(log) :
                          /\ j < count => Len(log[j].rows) = batch_size
                          /\ j = count =>
                                Len(log[j].rows) =
                                    IF n % batch_size = 0 THEN batch_size
                                    ELSE n % batch_size
                          /\ \A k \in 1..Len(log[j].rows) :
                                /\ (j - 1) * batch_size + k <= n
                                /\ log[j].rows[k] = rows[(j - 1) * batch_size + k]

C3_Witness ==
    /\ pm_pc = "done"
    /\ batch_size = 2
    /\ Len(pairs) = 3
    /\ Len(batch_log) = 2
    /\ Len(batch_log[1].rows) = 2
    /\ Len(batch_log[2].rows) = 1
    /\ pairs[1].z = pairs[3].z /\ pairs[1].stack = pairs[3].stack

\* C7: every invocation is the invocation of one row of the table: its pair,
\* its stack, the collection of its stack, and its p.relativePosition as
\* firstCanvasPosition; no row is invoked twice; once the loops are done
\* every row has been invoked.
InvocationOfRow(inv, r) ==
    /\ inv.tile_pairs = << <<r.pid, r.qid>> >>
    /\ inv.stack = r.stack
    /\ inv.collection = match_collections[r.stack]
    /\ inv.sift_options.firstCanvasPosition = r.pos

C8_BatchesInSequence ==
    /\ Cardinality(pools) <= 1
    /\ Cardinality(running) <= N_cores
    /\ \A t \in pending \cup running : t.batch \in pools
    /\ \A t1 \in pending \cup running :
          \A t2 \in running \cup finished : t2.batch <= t1.batch
    /\ \A b \in pools :
          \A t \in pending \cup running \cup finished : t.batch <= b

C8_Witness ==
    /\ pools = {2}
    /\ N_cores = 2
    /\ Cardinality(running) = 1
    /\ Cardinality(finished) = 2
    /\ \A t \in finished : t.batch = 1

====
